---- MODULE Spec2Model ----
(***************************************************************************)
(* The instrumented SMS API (Express + prom-client): the metrics           *)
(* middleware, the /sms/send handler with its simulated delay, the chaos   *)
(* toggle, /health and /metrics.  One event-loop callback is one action:   *)
(* JavaScript runs each callback to completion, so the only interleaving   *)
(* points are the arrival of a request, the expiry of its setTimeout, the  *)
(* 'finish' event of its response and a transport abort.  Further down:   *)
(* the platform-based policy of /sms/send, the two histograms under        *)
(* observations, and the WhatsApp API of api/server.js.                    *)
(***************************************************************************)
EXTENDS Integers, Sequences, FiniteSets, Bags, TLC

VARIABLES
    systemUnderLoad,    \* let systemUnderLoad (a JavaScript value)
    currentQueueDepth,  \* let currentQueueDepth, in units of 1/RandDenom
    smsQueue,           \* gauge sms_queue_depth
    systemLoad,         \* gauge system_load_avg, in units of 1/RandDenom
    httpDuration,       \* histogram http_request_duration_ms
    httpRequests,       \* counter http_requests_total: a bag of label sets
    httpErrors,         \* counter http_errors_total: a bag of label sets
    smsDelivered,       \* counter sms_delivered_total: a bag of label sets
    log,                \* the records handed to the logger: a bag
    reqs,               \* the requests in flight, in order of arrival
    arrivals,           \* number of requests received so far
    whatsappDuration,   \* histogram whatsapp_request_duration_ms (api/server.js)
    whatsappErrors,     \* counter whatsapp_errors_total: a bag of label sets
    interactive_message_sent_total,  \* counter of that name: a bag of label sets
    platformDeliveryStatus  \* gauge platform_delivery_status: label set -> value

\* the metrics of the WhatsApp API, the second server of the repository
whatsappVars ==
    <<whatsappDuration, whatsappErrors, interactive_message_sent_total,
      platformDeliveryStatus>>

vars == <<systemUnderLoad, currentQueueDepth, smsQueue, systemLoad, httpDuration,
          httpRequests, httpErrors, smsDelivered, log, reqs, arrivals, whatsappVars>>

(***************************************************************************)
(* Bounds of the model.                                                    *)
(***************************************************************************)
\* requests received in one behaviour
MaxArrivals == 3
\* requests that may be in flight at once: half of them, rounded up
MaxInFlight == (MaxArrivals + 1) \div 2
\* Math.random() returns k / RandDenom for a k in RandDraws
RandDenom == 1000
\* ms between the handler's answer and the 'finish' event
FlushMs == 2

\* the draws of shouldSimulateError: 0 is below both thresholds,
\* RandDenom \div 2 - 1 below 0.5 only, RandDenom - 1 below neither
RandDraws == {0, (RandDenom \div 2) - 1, RandDenom - 1}

\* the draws of the other calls: the smallest and the largest
EdgeDraws == {0, RandDenom - 1}

(***************************************************************************)
(* JavaScript values: a type tag and the literal text of the value.        *)
(***************************************************************************)
Undefined == [type |-> "undefined", val |-> <<>>]
Str(s) == [type |-> "string", val |-> s]
Num(s) == [type |-> "number", val |-> s]
JsTrue == [type |-> "boolean", val |-> <<"t", "r", "u", "e">>]
JsFalse == [type |-> "boolean", val |-> <<"f", "a", "l", "s", "e">>]

\* ToBoolean, as applied by if (...), ! and ||
Truthy(v) ==
    CASE v.type = "undefined" -> FALSE
      [] v.type = "boolean" -> v = JsTrue
      [] v.type = "number" -> v.val # <<"0">>
      [] v.type = "string" -> v.val # <<>>

\* a || b
OrElse(a, b) == IF Truthy(a) THEN a ELSE b

\* String.prototype.startsWith
startsWith(s, p) == Len(s) >= Len(p) /\ SubSeq(s, 1, Len(p)) = p

Digits == <<"0", "1", "2", "3", "4", "5", "6", "7", "8", "9">>

\* Number.prototype.toString of a non-negative integer
RECURSIVE toString(_)
toString(n) ==
    IF n < 10 THEN <<Digits[n + 1]>>
    ELSE toString(n \div 10) \o <<Digits[(n % 10) + 1]>>

Max(a, b) == IF a >= b THEN a ELSE b

\* Math.round of q / RandDenom, for q >= 0 (halves round up)
RoundMutFloor(q) == q \div RandDenom

Round(q) == (2 * q + RandDenom) \div (2 * RandDenom)

(***************************************************************************)
(* prom-client metrics.  A counter is a bag of label sets: a series exists *)
(* once it has been incremented, and its value is the number of copies.    *)
(***************************************************************************)
\* Counter.inc(labels)
incMutLost(counter, labels) ==
    IF BagIn(labels, counter) THEN counter ELSE counter (+) SetToBag({labels})

inc(counter, labels) == counter (+) SetToBag({labels})

\* value of a series (0 when the series does not exist)
Value(counter, labels) == CopiesIn(labels, counter)

\* buckets of http_request_duration_ms
Buckets == <<50, 100, 200, 500, 1000, 2000, 5000>>

\* buckets of whatsapp_request_duration_ms
WhatsappBuckets == <<100, 200, 500, 800, 1000, 2000, 5000>>

\* the bound of the bucket le="+Inf", which prom-client adds to every
\* histogram: a number above every bound and every duration of the model
Inf == 1000000

\* a histogram without observations
EmptyHistogram == [buckets |-> EmptyBag, count |-> EmptyBag, sum |-> EmptyBag]

\* Histogram.observe(labels, value) of a histogram with the buckets upperBounds:
\* every bucket whose bound is >= value and the bucket +Inf, the count and
\* the sum
histogramObserveMutOneBucket(upperBounds, h, labels, value) ==
    LET above == {j \in 1..Len(upperBounds) : value <= upperBounds[j]}
        first == {j \in above : \A k \in above : j <= k}
    IN  [buckets |-> h.buckets (+) SetToBag({[labels |-> labels, le |-> upperBounds[j]] :
                                             j \in first}
                                            \cup {[labels |-> labels, le |-> Inf]}),
         count |-> h.count (+) SetToBag({labels}),
         sum |-> IF value = 0 THEN h.sum ELSE h.sum (+) (labels :> value)]

histogramObserve(upperBounds, h, labels, value) ==
    [buckets |-> h.buckets (+) SetToBag({[labels |-> labels, le |-> upperBounds[j]] :
                                         j \in {k \in 1..Len(upperBounds) :
                                                    value <= upperBounds[k]}}
                                        \cup {[labels |-> labels, le |-> Inf]}),
     count |-> h.count (+) SetToBag({labels}),
     sum |-> IF value = 0 THEN h.sum ELSE h.sum (+) (labels :> value)]

\* httpDuration.observe(labels, value)
observe(h, labels, value) == histogramObserve(Buckets, h, labels, value)

(***************************************************************************)
(* The logger: one record per logger call.                                 *)
(***************************************************************************)
LogRec(message, method, path, statusCode, country, enabled) ==
    [message |-> message, method |-> method, path |-> path,
     statusCode |-> statusCode, country |-> country, enabled |-> enabled]

ApiRequestLog(method, path, statusCode) ==
    LogRec("API Request", method, path, statusCode, "", Undefined)
SmsSentLog(country) == LogRec("SMS Sent Successfully", "", "", 0, country, Undefined)
SmsErrorLog == LogRec("SMS Send Error", "", "", 0, "", Undefined)
SmsValidationLog == LogRec("SMS Validation Error", "", "", 0, "", Undefined)
RateLimitLog == LogRec("Rate Limit Exceeded", "", "", 0, "", Undefined)
LoadChangedLog(enabled) == LogRec("Load Simulation Changed", "", "", 0, "", enabled)

(***************************************************************************)
(* Simulation data.                                                        *)
(***************************************************************************)
\* getResponseTime(), in units of 1/RandDenom ms, for Math.random() = k/RandDenom
getResponseTimeMutSticky(k) == k * 2000 + 500 * RandDenom

getResponseTime(k) ==
    IF Truthy(systemUnderLoad) THEN k * 2000 + 500 * RandDenom
    ELSE k * 200 + 50 * RandDenom

\* shouldSimulateError(), for Math.random() = k/RandDenom
shouldSimulateError(k) ==
    IF Truthy(systemUnderLoad) THEN 2 * k < RandDenom
    ELSE 1000 * k < RandDenom

(***************************************************************************)
(* Requests and responses.                                                 *)
(***************************************************************************)
NoBody ==
    [error |-> "", status |-> "", retryAfter |-> -1, loadSimulation |-> Undefined,
     queueDepth |-> -1, to |-> Undefined]

\* a request (req, res and the handler's timer) before any handler has run:
\* apiKey and platform are the headers x-api-key and x-platform;
\* processingTime is the delay of the request's timer, 0 while none is set
NewRequest ==
    [pc |-> "received", method |-> "", path |-> "", route |-> "",
     to |-> Undefined, text |-> Undefined, apiKey |-> Undefined, enabled |-> Undefined,
     platform |-> Undefined,
     processingTime |-> 0, simulatedError |-> FALSE, statusCode |-> 200,
     body |-> NoBody, timerSet |-> FALSE, aborted |-> FALSE]

\* the inputs the model draws: for `to` a missing field, a number as the
\* load test sends it ('+1...') and a JSON number
ToValues == {Undefined, Str(<<"+", "1", "5">>), Num(<<"1", "5">>)}
TextValues == {Undefined, Str(<<"H", "i">>)}
RateLimitedKey == Str(<<"rate-limited-key">>)
KeyValues == {Undefined, RateLimitedKey}
EnabledValues == {Undefined, JsTrue, JsFalse}

\* the routes registered with app.get / app.post
Routes ==
    {[method |-> "GET", path |-> "/health"], [method |-> "POST", path |-> "/sms/send"],
     [method |-> "POST", path |-> "/admin/simulate-load"],
     [method |-> "GET", path |-> "/metrics"]}

\* requests no route matches
Unrouted ==
    {[method |-> "POST", path |-> "/metrics"], [method |-> "GET", path |-> "/unknown"]}

\* a request can be received
CanArrive == Len(reqs) < MaxInFlight /\ arrivals < MaxArrivals

\* the requests in flight
InFlight == 1..Len(reqs)

\* reqs without its i-th request
Remove(i) == SubSeq(reqs, 1, i - 1) \o SubSeq(reqs, i + 1, Len(reqs))

\* the request as the middleware and the router hand it to a handler
Received(method, path) ==
    [NewRequest EXCEPT !.method = method, !.path = path,
                 !.route = IF [method |-> method, path |-> path] \in Routes
                           THEN path ELSE ""]

\* res.status(code).json(body)
Respond(r, code, body) == [r EXCEPT !.pc = "responded", !.statusCode = code, !.body = body]

(***************************************************************************)
(* Init: the module-level state after the server is constructed.           *)
(***************************************************************************)
\* let currentQueueDepth = 50
InitialQueueDepth == 50

\* the metrics of api/server.js as they are constructed: no series
WhatsappMetricsInit ==
    /\ whatsappDuration = EmptyHistogram
    /\ whatsappErrors = EmptyBag
    /\ interactive_message_sent_total = EmptyBag
    /\ platformDeliveryStatus = <<>>

Init ==
    /\ systemUnderLoad = JsFalse
    /\ currentQueueDepth = InitialQueueDepth * RandDenom
    /\ smsQueue = 0
    /\ systemLoad = 0
    /\ httpDuration = EmptyHistogram
    /\ httpRequests = EmptyBag
    /\ httpErrors = EmptyBag
    /\ smsDelivered = EmptyBag
    /\ log = EmptyBag
    /\ reqs = <<>>
    /\ arrivals = 0
    /\ WhatsappMetricsInit

(***************************************************************************)
(* GET /health                                                             *)
(***************************************************************************)
Health ==
    /\ CanArrive
    /\ reqs' = Append(reqs, Respond(Received("GET", "/health"), 200,
                                    [NoBody EXCEPT !.status = "healthy",
                                                   !.queueDepth = currentQueueDepth]))
    /\ arrivals' = arrivals + 1
    /\ UNCHANGED <<systemUnderLoad, currentQueueDepth, smsQueue, systemLoad,
                   httpDuration, httpRequests, httpErrors, smsDelivered, log>>
    /\ UNCHANGED whatsappVars

(***************************************************************************)
(* POST /sms/send, up to the await.                                        *)
(***************************************************************************)
\* the status the handler answers with before the delay, 0 when it goes on to
\* the delay: simulated error, then validation, then rate limit
SyncStatusMutValidationFirst(to, text, apiKey, simulatedError) ==
    IF ~Truthy(to) \/ ~Truthy(text) THEN 400
    ELSE IF simulatedError THEN 500
    ELSE IF apiKey = RateLimitedKey THEN 429
    ELSE 0

SyncStatusMutKeyFirst(to, text, apiKey, simulatedError) ==
    IF simulatedError THEN 500
    ELSE IF apiKey = RateLimitedKey THEN 429
    ELSE IF ~Truthy(to) \/ ~Truthy(text) THEN 400
    ELSE 0

SyncStatus(to, text, apiKey, simulatedError) ==
    IF simulatedError THEN 500
    ELSE IF ~Truthy(to) \/ ~Truthy(text) THEN 400
    ELSE IF apiKey = RateLimitedKey THEN 429
    ELSE 0

\* the JSON body of the three early returns
ErrorBodyMutRetry(code) ==
    CASE code = 500 -> [NoBody EXCEPT !.error = "Internal server error"]
      [] code = 400 -> [NoBody EXCEPT !.error = "Bad request"]
      [] code = 429 -> [NoBody EXCEPT !.error = "Rate limit exceeded", !.retryAfter = 60]

ErrorBody(code) ==
    CASE code = 500 -> [NoBody EXCEPT !.error = "Internal server error"]
      [] code = 400 -> [NoBody EXCEPT !.error = "Bad request"]
      [] code = 429 -> [NoBody EXCEPT !.error = "Rate limit exceeded", !.retryAfter = 30]

\* the logger call of the three early returns
ErrorLog(code) ==
    CASE code = 500 -> SmsErrorLog
      [] code = 400 -> SmsValidationLog
      [] code = 429 -> RateLimitLog

\* the request when the synchronous part of the handler returns: answered, or
\* suspended with its timer set to processingTime
SmsSendSyncMutAwaitFirst(r, processingTime) ==
    LET code == SyncStatus(r.to, r.text, r.apiKey, r.simulatedError)
    IN  IF code = 0
        THEN [r EXCEPT !.pc = "delay", !.timerSet = TRUE,
                       !.processingTime = processingTime]
        ELSE Respond([r EXCEPT !.timerSet = TRUE, !.processingTime = processingTime],
                     code, ErrorBody(code))

SmsSendSync(r, processingTime) ==
    LET code == SyncStatus(r.to, r.text, r.apiKey, r.simulatedError)
    IN  IF code = 0
        THEN [r EXCEPT !.pc = "delay", !.timerSet = TRUE,
                       !.processingTime = processingTime]
        ELSE Respond(r, code, ErrorBody(code))

SmsSendMutQueueOnError(to, text, apiKey, kTime, kErr) ==
    /\ CanArrive
    /\ LET r == [Received("POST", "/sms/send") EXCEPT
                    !.to = to, !.text = text, !.apiKey = apiKey,
                    !.simulatedError = shouldSimulateError(kErr)]
           code == SyncStatus(to, text, apiKey, r.simulatedError)
       IN  /\ reqs' = Append(reqs, SmsSendSync(r, getResponseTime(kTime)))
           /\ log' = IF code = 0 THEN log ELSE log (+) SetToBag({ErrorLog(code)})
           /\ currentQueueDepth' = IF code = 500 THEN currentQueueDepth + RandDenom
                                   ELSE currentQueueDepth
    /\ arrivals' = arrivals + 1
    /\ UNCHANGED <<systemUnderLoad, smsQueue, systemLoad,
                   httpDuration, httpRequests, httpErrors, smsDelivered>>
    /\ UNCHANGED whatsappVars

SmsSend(to, text, apiKey, kTime, kErr) ==
    /\ CanArrive
    /\ LET r == [Received("POST", "/sms/send") EXCEPT
                    !.to = to, !.text = text, !.apiKey = apiKey,
                    !.simulatedError = shouldSimulateError(kErr)]
           code == SyncStatus(to, text, apiKey, r.simulatedError)
       IN  /\ reqs' = Append(reqs, SmsSendSync(r, getResponseTime(kTime)))
           /\ log' = IF code = 0 THEN log ELSE log (+) SetToBag({ErrorLog(code)})
    /\ arrivals' = arrivals + 1
    /\ UNCHANGED <<systemUnderLoad, currentQueueDepth, smsQueue, systemLoad,
                   httpDuration, httpRequests, httpErrors, smsDelivered>>
    /\ UNCHANGED whatsappVars

(***************************************************************************)
(* POST /sms/send, after the await: the setTimeout of request i expires.   *)
(* A timer set earlier with a delay no longer than this one expires first. *)
(***************************************************************************)
TimerDue(i) ==
    /\ reqs[i].pc = "delay"
    /\ \A j \in 1..(i - 1) :
           reqs[j].pc = "delay" => reqs[j].processingTime > reqs[i].processingTime

\* currentQueueDepth += Math.random() * 10 - 5; Math.max(0, currentQueueDepth),
\* from the depth given
NextDepth(depth, k) == Max(0, depth + k * 10 - 5 * RandDenom)

QueueUpdateMutNoClamp(k) == currentQueueDepth + k * 10 - 5 * RandDenom

QueueUpdate(k) == NextDepth(currentQueueDepth, k)

\* the destination_country label
Country(to) ==
    IF startsWith(to.val, <<"+", "1">>) THEN "US"
    ELSE IF startsWith(to.val, <<"+", "4", "4">>) THEN "UK"
    ELSE IF startsWith(to.val, <<"+", "4", "9">>) THEN "DE"
    ELSE "OTHER"

DeliveredLabels(to) == [destination_country |-> Country(to), status |-> "delivered"]

\* a handler that would read the flag again after the await and answer 500
\* when it is on by then
AfterDelayMutLateDecision(i, k) ==
    /\ i \in InFlight
    /\ TimerDue(i)
    /\ currentQueueDepth' = QueueUpdate(k)
    /\ smsQueue' = Round(currentQueueDepth')
    /\ IF Truthy(systemUnderLoad)
       THEN /\ reqs' = [reqs EXCEPT ![i] = Respond(reqs[i], 500, ErrorBody(500))]
            /\ log' = log (+) SetToBag({SmsErrorLog})
            /\ UNCHANGED smsDelivered
       ELSE IF reqs[i].to.type = "string"
       THEN /\ smsDelivered' = inc(smsDelivered, DeliveredLabels(reqs[i].to))
            /\ log' = log (+) SetToBag({SmsSentLog(Country(reqs[i].to))})
            /\ reqs' = [reqs EXCEPT ![i] =
                           Respond(reqs[i], reqs[i].statusCode,
                                   [NoBody EXCEPT !.status = "accepted",
                                                  !.to = reqs[i].to])]
       ELSE /\ reqs' = [reqs EXCEPT ![i].pc = "rejected"]
            /\ UNCHANGED <<smsDelivered, log>>
    /\ UNCHANGED <<systemUnderLoad, systemLoad, httpDuration, httpRequests,
                   httpErrors, arrivals>>
    /\ UNCHANGED whatsappVars

\* to.startsWith throws a TypeError unless to is a string: the async handler's
\* promise rejects and the request is never answered
AfterDelay(i, k) ==
    /\ i \in InFlight
    /\ TimerDue(i)
    /\ currentQueueDepth' = QueueUpdate(k)
    /\ smsQueue' = Round(currentQueueDepth')
    /\ IF reqs[i].to.type = "string"
       THEN /\ smsDelivered' = inc(smsDelivered, DeliveredLabels(reqs[i].to))
            /\ log' = log (+) SetToBag({SmsSentLog(Country(reqs[i].to))})
            /\ reqs' = [reqs EXCEPT ![i] =
                           Respond(reqs[i], reqs[i].statusCode,
                                   [NoBody EXCEPT !.status = "accepted",
                                                  !.to = reqs[i].to])]
       ELSE /\ reqs' = [reqs EXCEPT ![i].pc = "rejected"]
            /\ UNCHANGED <<smsDelivered, log>>
    /\ UNCHANGED <<systemUnderLoad, systemLoad, httpDuration, httpRequests,
                   httpErrors, arrivals>>
    /\ UNCHANGED whatsappVars

(***************************************************************************)
(* POST /admin/simulate-load                                               *)
(***************************************************************************)
\* req.body.enabled || false
SetLoadMutToggle(enabled) == IF Truthy(systemUnderLoad) THEN JsFalse ELSE JsTrue

SetLoad(enabled) == OrElse(enabled, JsFalse)

SimulateLoad(enabled) ==
    /\ CanArrive
    /\ systemUnderLoad' = SetLoad(enabled)
    /\ log' = log (+) SetToBag({LoadChangedLog(systemUnderLoad')})
    /\ reqs' = Append(reqs,
                      Respond([Received("POST", "/admin/simulate-load") EXCEPT
                                  !.enabled = enabled], 200,
                              [NoBody EXCEPT !.loadSimulation = systemUnderLoad']))
    /\ arrivals' = arrivals + 1
    /\ UNCHANGED <<currentQueueDepth, smsQueue, systemLoad, httpDuration,
                   httpRequests, httpErrors, smsDelivered>>
    /\ UNCHANGED whatsappVars

(***************************************************************************)
(* GET /metrics: sets the system gauges and answers with the registry.     *)
(* (process_memory_usage_bytes holds process.memoryUsage() and is left     *)
(* out: nothing reads it.)                                                 *)
(***************************************************************************)
Metrics(k) ==
    /\ CanArrive
    /\ systemLoad' = 3 * k
    /\ reqs' = Append(reqs, Respond(Received("GET", "/metrics"), 200, NoBody))
    /\ arrivals' = arrivals + 1
    /\ UNCHANGED <<systemUnderLoad, currentQueueDepth, smsQueue, httpDuration,
                   httpRequests, httpErrors, smsDelivered, log>>
    /\ UNCHANGED whatsappVars

(***************************************************************************)
(* A request no route matches: the router's default 404, req.route unset.  *)
(***************************************************************************)
NotFound(method, path) ==
    /\ CanArrive
    /\ [method |-> method, path |-> path] \notin Routes
    /\ reqs' = Append(reqs, Respond(Received(method, path), 404,
                                    [NoBody EXCEPT !.error = "Not Found"]))
    /\ arrivals' = arrivals + 1
    /\ UNCHANGED <<systemUnderLoad, currentQueueDepth, smsQueue, systemLoad,
                   httpDuration, httpRequests, httpErrors, smsDelivered, log>>
    /\ UNCHANGED whatsappVars

(***************************************************************************)
(* The metrics middleware: the 'finish' listener of a response.            *)
(***************************************************************************)
\* Date.now() - start, in ms: the delay of the request's timer, rounded up,
\* and FlushMs for the handler and the transport
Elapsed(r) == ((r.processingTime + RandDenom - 1) \div RandDenom) + FlushMs

\* if (req.path === '/metrics') return next()
SkippedMutNone(r) == FALSE

Skipped(r) == r.path = "/metrics"

\* req.route?.path || req.path
RouteLabel(r) == IF r.route # "" THEN r.route ELSE r.path

RequestLabels(r) ==
    [method |-> r.method, route |-> RouteLabel(r), status_code |-> r.statusCode]

\* res.statusCode >= 400
IsErrorMutServerOnly(r) == r.statusCode >= 500

IsError(r) == r.statusCode >= 400

ErrorLabels(r) ==
    [method |-> r.method, route |-> RouteLabel(r),
     status_code |-> toString(r.statusCode),
     error_type |-> IF r.statusCode >= 500 THEN "server_error" ELSE "client_error"]

\* the response of request i has been handed to the transport: 'finish' is
\* emitted, unless the connection is gone
Finish(i) ==
    /\ i \in InFlight
    /\ reqs[i].pc = "responded"
    /\ ~reqs[i].aborted
    /\ IF Skipped(reqs[i])
       THEN UNCHANGED <<httpDuration, httpRequests, httpErrors, log>>
       ELSE /\ httpDuration' = observe(httpDuration, RequestLabels(reqs[i]), Elapsed(reqs[i]))
            /\ httpRequests' = inc(httpRequests, RequestLabels(reqs[i]))
            /\ httpErrors' = IF IsError(reqs[i])
                             THEN inc(httpErrors, ErrorLabels(reqs[i]))
                             ELSE httpErrors
            /\ log' = log (+) SetToBag({ApiRequestLog(reqs[i].method, reqs[i].path,
                                                      reqs[i].statusCode)})
    /\ reqs' = Remove(i)
    /\ UNCHANGED <<systemUnderLoad, currentQueueDepth, smsQueue, systemLoad,
                   smsDelivered, arrivals>>
    /\ UNCHANGED whatsappVars

(***************************************************************************)
(* The transport.  Abort: the client goes away while the handler is        *)
(* suspended in its delay; the handler holds no reference to the           *)
(* connection state and its timer stays set.  Close: the connection of an  *)
(* aborted or never answered request is released; a response written to a  *)
(* connection that is gone emits 'close' and no 'finish'.                  *)
(***************************************************************************)
Abort(i) ==
    /\ i \in InFlight
    /\ reqs[i].pc = "delay"
    /\ ~reqs[i].aborted
    /\ reqs' = [reqs EXCEPT ![i].aborted = TRUE]
    /\ UNCHANGED <<systemUnderLoad, currentQueueDepth, smsQueue, systemLoad,
                   httpDuration, httpRequests, httpErrors, smsDelivered, log, arrivals>>
    /\ UNCHANGED whatsappVars

Close(i) ==
    /\ i \in InFlight
    /\ \/ reqs[i].pc = "responded" /\ reqs[i].aborted
       \/ reqs[i].pc = "rejected"
    /\ reqs' = Remove(i)
    /\ UNCHANGED <<systemUnderLoad, currentQueueDepth, smsQueue, systemLoad,
                   httpDuration, httpRequests, httpErrors, smsDelivered, log, arrivals>>
    /\ UNCHANGED whatsappVars

(***************************************************************************)
(* The specification.                                                      *)
(***************************************************************************)
Next ==
    \/ Health
    \/ \E to \in ToValues, text \in TextValues, apiKey \in KeyValues,
          kTime \in EdgeDraws, kErr \in RandDraws :
           SmsSend(to, text, apiKey, kTime, kErr)
    \/ \E i \in 1..MaxInFlight, k \in EdgeDraws : AfterDelay(i, k)
    \/ \E enabled \in EnabledValues : SimulateLoad(enabled)
    \/ \E k \in EdgeDraws : Metrics(k)
    \/ \E u \in Unrouted : NotFound(u.method, u.path)
    \/ \E i \in 1..MaxInFlight : Finish(i)
    \/ \E i \in 1..MaxInFlight : Abort(i)
    \/ \E i \in 1..MaxInFlight : Close(i)

Spec == Init /\ [][Next]_vars

(***************************************************************************)
(* The server after Drained deliveries that each drew Math.random() = 0:   *)
(* Drained requests to a US number were received one after the other with  *)
(* the flag off, suspended for 50 ms, delivered and finished.  Each took   *)
(* 5 off the queue depth, down from 50 and never below 0: the state from  *)
(* which the clamp of the depth is in reach of the next requests.          *)
(* arrivals counts the requests received after these.                      *)
(***************************************************************************)
\* deliveries before the first state
Drained == 10

\* the queue depth after n such deliveries
RECURSIVE DrainedDepth(_)
DrainedDepth(n) ==
    IF n = 0 THEN InitialQueueDepth * RandDenom ELSE NextDepth(DrainedDepth(n - 1), 0)

\* n copies of every element of bag b
Times(b, n) == [e \in DOMAIN b |-> n * b[e]]

\* one such request as it is answered
DrainRequest ==
    Respond([Received("POST", "/sms/send") EXCEPT
                !.to = Str(<<"+", "1", "5">>), !.text = Str(<<"H", "i">>),
                !.timerSet = TRUE, !.processingTime = 50 * RandDenom],
            200, NoBody)

\* what one such request adds to the histogram
DrainObserved ==
    observe(EmptyHistogram,
            RequestLabels(DrainRequest), Elapsed(DrainRequest))

InitDrained ==
    /\ systemUnderLoad = JsFalse
    /\ currentQueueDepth = DrainedDepth(Drained)
    /\ smsQueue = Round(currentQueueDepth)
    /\ systemLoad = 0
    /\ httpDuration = [buckets |-> Times(DrainObserved.buckets, Drained),
                       count |-> Times(DrainObserved.count, Drained),
                       sum |-> Times(DrainObserved.sum, Drained)]
    /\ httpRequests = Times(inc(EmptyBag, RequestLabels(DrainRequest)), Drained)
    /\ httpErrors = EmptyBag
    /\ smsDelivered = Times(inc(EmptyBag, DeliveredLabels(DrainRequest.to)), Drained)
    /\ log = Times(SetToBag({SmsSentLog(Country(DrainRequest.to)),
                             ApiRequestLog(DrainRequest.method, DrainRequest.path,
                                           DrainRequest.statusCode)}), Drained)
    /\ reqs = <<>>
    /\ arrivals = 0
    /\ WhatsappMetricsInit

SpecDrained == InitDrained /\ [][Next]_vars

(***************************************************************************)
(* The server with timers that fire: a setTimeout that is due expires, and *)
(* the event loop runs its callback.                                       *)
(***************************************************************************)
TimersFire == \E i \in 1..MaxInFlight, k \in EdgeDraws : AfterDelay(i, k)

SpecFair == Spec /\ WF_vars(TimersFire)

(***************************************************************************)
(* The platform-based simulation policy of /sms/send: the server the load  *)
(* test of test/loadTest.js drives with an x-platform header.  The handler *)
(* follows the steps of the design: latency, delay, outcome, queue depth,  *)
(* delivery counter, and an answer that is 'accepted' whatever the outcome.*)
(***************************************************************************)
\* the platform whose deliveries fail: the load test's iOS incident
DisfavoredPlatform == Str(<<"ios">>)

\* the x-platform headers: none, and the two the load test sends
PlatformValues == {Undefined, DisfavoredPlatform, Str(<<"android">>)}

\* simulateDeliveryOutcome(platform): the delivery fails exactly for the
\* disfavored platform
simulateDeliveryOutcomeMutAllDelivered(platform) == [delivered |-> TRUE]

simulateDeliveryOutcome(platform) == [delivered |-> platform # DisfavoredPlatform]

\* adjustQueueDepth(delta), from the depth given: clamped to >= 0
adjustQueueDepth(depth, delta) == Max(0, depth + delta)

\* the labels of the delivery-outcome counter
OutcomeLabels(r, outcome) ==
    [destination_country |-> Country(r.to),
     status |-> IF outcome.delivered THEN "delivered" ELSE "undelivered",
     platform |-> r.platform]

\* a send request is received and suspended for its simulated latency
PlatformSend(platform, kTime) ==
    /\ CanArrive
    /\ reqs' = Append(reqs, [Received("POST", "/sms/send") EXCEPT
                                !.to = Str(<<"+", "1", "5">>), !.text = Str(<<"H", "i">>),
                                !.platform = platform, !.pc = "delay",
                                !.timerSet = TRUE,
                                !.processingTime = getResponseTime(kTime)])
    /\ arrivals' = arrivals + 1
    /\ UNCHANGED <<systemUnderLoad, currentQueueDepth, smsQueue, systemLoad,
                   httpDuration, httpRequests, httpErrors, smsDelivered, log>>
    /\ UNCHANGED whatsappVars

\* the delay of request i is over: outcome, queue depth, counter, answer
PlatformDeliver(i) ==
    /\ i \in InFlight
    /\ TimerDue(i)
    /\ LET outcome == simulateDeliveryOutcome(reqs[i].platform)
       IN  /\ currentQueueDepth' = IF outcome.delivered THEN currentQueueDepth
                                   ELSE adjustQueueDepth(currentQueueDepth, RandDenom)
           /\ smsDelivered' = inc(smsDelivered, OutcomeLabels(reqs[i], outcome))
    /\ reqs' = [reqs EXCEPT ![i] =
                   Respond(reqs[i], 200, [NoBody EXCEPT !.status = "accepted",
                                                        !.to = reqs[i].to])]
    /\ UNCHANGED <<systemUnderLoad, smsQueue, systemLoad, httpDuration, httpRequests,
                   httpErrors, log, arrivals>>
    /\ UNCHANGED whatsappVars

NextPlatform ==
    \/ \E platform \in PlatformValues, kTime \in EdgeDraws : PlatformSend(platform, kTime)
    \/ \E i \in 1..MaxInFlight : PlatformDeliver(i)
    \/ \E enabled \in EnabledValues : SimulateLoad(enabled)
    \/ Health
    \/ \E i \in 1..MaxInFlight : Finish(i)

SpecPlatform == Init /\ [][NextPlatform]_vars

(***************************************************************************)
(* The two histograms under any sequence of observations: the observe      *)
(* calls of the finish listener (part_000 line 116) and of the upstream     *)
(* 'end' handler (api/server.js line 167), with durations at and next to   *)
(* the bucket bounds.  The duration of a request of the SMS API is its     *)
(* simulated delay, at most 2500 ms, and the time to flush the answer; the *)
(* duration of a WhatsApp request is the time the upstream takes to        *)
(* answer, which nothing bounds (the outbound request sets no timeout).    *)
(***************************************************************************)
\* observations in one behaviour
MaxObservations == 3

\* the durations observed, in ms
HttpObservedValues == {0, 50, 51, 200, 201, 2000, 2500 + FlushMs}
WhatsappObservedValues == {0, 100, 101, 800, 801, 5000, 5001}

\* label sets of http_request_duration_ms
HttpLabelSets ==
    {[method |-> "GET", route |-> "/health", status_code |-> 200],
     [method |-> "POST", route |-> "/sms/send", status_code |-> 500]}

\* label sets of whatsapp_request_duration_ms
WhatsappLabelSets == {[status_code |-> 200], [status_code |-> 503]}

\* the observations made so far
Observations ==
    BagCardinality(httpDuration.count) + BagCardinality(whatsappDuration.count)

ObserveHttp(labels, value) ==
    /\ Observations < MaxObservations
    /\ httpDuration' = observe(httpDuration, labels, value)
    /\ UNCHANGED <<systemUnderLoad, currentQueueDepth, smsQueue, systemLoad,
                   httpRequests, httpErrors, smsDelivered, log, reqs, arrivals,
                   whatsappErrors, interactive_message_sent_total,
                   platformDeliveryStatus, whatsappDuration>>

ObserveWhatsapp(labels, value) ==
    /\ Observations < MaxObservations
    /\ whatsappDuration' = histogramObserve(WhatsappBuckets, whatsappDuration, labels, value)
    /\ UNCHANGED <<systemUnderLoad, currentQueueDepth, smsQueue, systemLoad,
                   httpRequests, httpErrors, smsDelivered, log, reqs, arrivals,
                   whatsappErrors, interactive_message_sent_total,
                   platformDeliveryStatus, httpDuration>>

NextHistogram ==
    \/ \E labels \in HttpLabelSets, value \in HttpObservedValues :
           ObserveHttp(labels, value)
    \/ \E labels \in WhatsappLabelSets, value \in WhatsappObservedValues :
           ObserveWhatsapp(labels, value)

SpecHistogram == Init /\ [][NextHistogram]_vars

(***************************************************************************)
(* The WhatsApp API (api/server.js), the second server of the repository:  *)
(* POST /whatsapp/send-template makes one outbound call to the upstream    *)
(* platform and answers from the callback of the call: the 'end' handler   *)
(* of the upstream response or the 'error' handler of the outbound         *)
(* request.  reqs holds its requests in flight, log its logger records.    *)
(* (GET /health of this server changes no state and GET /metrics only the  *)
(* system gauges; neither touches the metrics of the handler.)             *)
(***************************************************************************)
\* requests received in one behaviour of the WhatsApp API
MaxCalls == 2

\* the value null, and the objects of an upstream response body
JsNull == [type |-> "null", val |-> <<>>]
StatusObject(groupId, name) == [type |-> "object", groupId |-> groupId, name |-> name]
ResponseObject(messages, status) ==
    [type |-> "object", messages |-> messages, status |-> status]

\* the upstream response bodies the model draws: no JSON, null, an object
\* without a status, and a status in either of the two formats
BadGatewayBody == "Bad Gateway"
NullBody == "null"
EmptyObjectBody == "{}"
PendingBody == "{\"messages\":[{\"status\":{\"groupId\":1,\"name\":\"PENDING_ENROUTE\"}}]}"
DeliveredBody == "{\"status\":{\"groupId\":3,\"name\":\"DELIVERED_TO_HANDSET\"}}"
RejectedBody == "{\"status\":{\"groupId\":5,\"name\":\"REJECTED_NETWORK\"}}"
UnnamedBody == "{\"status\":{\"groupId\":3}}"

UpstreamBodies ==
    {BadGatewayBody, NullBody, EmptyObjectBody, PendingBody, DeliveredBody,
     RejectedBody, UnnamedBody}

\* JSON.parse(body): whether it returns, and the value it returns
JSONparse(body) ==
    CASE body = NullBody -> [ok |-> TRUE, value |-> JsNull]
      [] body = EmptyObjectBody ->
             [ok |-> TRUE, value |-> ResponseObject(<<>>, Undefined)]
      [] body = PendingBody ->
             [ok |-> TRUE,
              value |-> ResponseObject(
                  <<[status |-> StatusObject(Num(<<"1">>), Str(<<"PENDING_ENROUTE">>))]>>,
                  Undefined)]
      [] body = DeliveredBody ->
             [ok |-> TRUE,
              value |-> ResponseObject(
                  <<>>, StatusObject(Num(<<"3">>), Str(<<"DELIVERED_TO_HANDSET">>)))]
      [] body = RejectedBody ->
             [ok |-> TRUE,
              value |-> ResponseObject(
                  <<>>, StatusObject(Num(<<"5">>), Str(<<"REJECTED_NETWORK">>)))]
      [] body = UnnamedBody ->
             [ok |-> TRUE,
              value |-> ResponseObject(<<>>, StatusObject(Num(<<"3">>), Undefined))]
      [] OTHER -> [ok |-> FALSE, value |-> Undefined]

\* the try block throws: JSON.parse throws a SyntaxError, or parsed is null
\* and parsed.messages throws a TypeError
ParseThrowsMutNullIsEmpty(body) == ~JSONparse(body).ok

ParseThrows(body) == ~JSONparse(body).ok \/ JSONparse(body).value.type = "null"

\* let status: parsed.messages?.[0]?.status, else parsed.status, else undefined
UpstreamStatus(parsed) ==
    IF parsed.type # "object" THEN Undefined
    ELSE IF Len(parsed.messages) > 0 /\ parsed.messages[1].status.type = "object"
    THEN parsed.messages[1].status
    ELSE IF parsed.status.type = "object" THEN parsed.status
    ELSE Undefined

\* deliveryValue, in halves: 2 is 1 (delivered), 1 is 0.5 (pending)
deliveryValueMutPendingLost(status) ==
    IF status.type = "object" /\ status.groupId = Num(<<"3">>) THEN 2 ELSE 0

deliveryValue(status) ==
    IF status.type = "object" /\ status.groupId = Num(<<"3">>) THEN 2
    ELSE IF status.type = "object" /\ status.groupId = Num(<<"1">>) THEN 1
    ELSE 0

\* statusName
statusName(status) ==
    IF status.type = "object" /\ Truthy(status.name) THEN status.name.val[1]
    ELSE "unknown"

\* Gauge.set(labels, value)
gaugeSet(gauge, labels, value) == (labels :> value) @@ gauge

\* const { to = '573005944681', platform = 'default' } = req.body
DefaultTo == Str(<<"573005944681">>)
DefaultPlatform == Str(<<"default">>)
OrDefault(v, d) == IF v.type = "undefined" THEN d ELSE v

\* the platforms, upstream statuses, durations (ms) and network errors the
\* model draws
WhatsappPlatforms == {Undefined, Str(<<"ios">>)}
UpstreamStatuses == {200, 304, 404, 503}
UpstreamDurations == {101}
NetworkErrors == {"ECONNRESET", "ETIMEDOUT"}

\* a request of the WhatsApp API in flight: req.body, the outcome of the
\* outbound call (event: 'end' or 'error', with infobipRes.statusCode and the
\* chunks received, or err.message) and the answer (res)
WhatsappRequest(path) ==
    [pc |-> "received", path |-> path, to |-> Undefined, platform |-> Undefined,
     event |-> "", upstreamStatus |-> 0, upstreamBody |-> "", upstreamError |-> "",
     statusCode |-> 200, body |-> "", error |-> "", message |-> ""]

CanCall == Len(reqs) < MaxInFlight /\ arrivals < MaxCalls

\* the unchanged state of the SMS API
smsVars ==
    <<systemUnderLoad, currentQueueDepth, smsQueue, httpDuration, httpRequests,
      httpErrors, smsDelivered>>

\* POST /whatsapp/send-template up to infobipReq.end(): the outbound call is
\* under way
SendTemplate(platform) ==
    /\ CanCall
    /\ reqs' = Append(reqs, [WhatsappRequest("/whatsapp/send-template") EXCEPT
                                !.pc = "calling", !.to = OrDefault(Undefined, DefaultTo),
                                !.platform = OrDefault(platform, DefaultPlatform)])
    /\ arrivals' = arrivals + 1
    /\ UNCHANGED <<smsVars, systemLoad, log, whatsappVars>>

\* errType
ErrType(statusCode) == IF statusCode >= 500 THEN "server_error" ELSE "client_error"

\* statusCode >= 200 && statusCode < 300
IsSuccessMutAnyBelow400(statusCode) == statusCode >= 200 /\ statusCode < 400

IsSuccess(statusCode) == statusCode >= 200 /\ statusCode < 300

\* the logger records of the 'end' handler
WhatsappEndLog(statusCode, body) ==
    (IF statusCode >= 400
     THEN SetToBag({LogRec("Infobip HTTP error", "", "", statusCode, "", Undefined)})
     ELSE EmptyBag)
    (+) (IF ParseThrows(body)
         THEN SetToBag({LogRec("Failed to parse delivery status", "", "", 0, "",
                               Undefined)})
         ELSE EmptyBag)
    (+) SetToBag({LogRec("Infobip response", "", "", statusCode, "", Undefined)})

\* infobipRes.on('end'): the upstream answered request i with statusCode and
\* body after duration ms
UpstreamEnd(i, statusCode, body, duration) ==
    /\ i \in InFlight
    /\ reqs[i].pc = "calling"
    /\ interactive_message_sent_total' =
           IF IsSuccess(statusCode)
           THEN inc(interactive_message_sent_total,
                    [language |-> "interactive", platform |-> reqs[i].platform])
           ELSE interactive_message_sent_total
    /\ whatsappErrors' =
           IF statusCode >= 400
           THEN inc(whatsappErrors,
                    [error_type |-> ErrType(statusCode), status_code |-> statusCode])
           ELSE whatsappErrors
    /\ whatsappDuration' = histogramObserve(WhatsappBuckets, whatsappDuration,
                                            [status_code |-> statusCode], duration)
    /\ platformDeliveryStatus' =
           IF ParseThrows(body) THEN platformDeliveryStatus
           ELSE LET status == UpstreamStatus(JSONparse(body).value)
                IN  gaugeSet(platformDeliveryStatus,
                             [platform |-> reqs[i].platform,
                              status_name |-> statusName(status)],
                             deliveryValue(status))
    /\ reqs' = [reqs EXCEPT ![i].event = "end", ![i].upstreamStatus = statusCode,
                            ![i].upstreamBody = body,
                            ![i].pc = "responded", ![i].statusCode = statusCode,
                            ![i].body = body]
    /\ log' = log (+) WhatsappEndLog(statusCode, body)
    /\ UNCHANGED <<smsVars, systemLoad, arrivals>>

\* the labels of a failed outbound call
NetworkErrorLabelsMutServerError ==
    [error_type |-> "server_error", status_code |-> 500]

NetworkErrorLabels == [error_type |-> "network_error", status_code |-> 0]

\* infobipReq.on('error'): the outbound call of request i failed with err
UpstreamError(i, err) ==
    /\ i \in InFlight
    /\ reqs[i].pc = "calling"
    /\ whatsappErrors' = inc(whatsappErrors, NetworkErrorLabels)
    /\ log' = log (+) SetToBag({LogRec("Network error while calling Infobip", "", "",
                                       0, "", Undefined)})
    /\ reqs' = [reqs EXCEPT ![i].event = "error", ![i].upstreamError = err,
                            ![i].pc = "responded", ![i].statusCode = 500,
                            ![i].error = "Request failed", ![i].message = err]
    /\ UNCHANGED <<smsVars, systemLoad, arrivals, whatsappDuration,
                   interactive_message_sent_total, platformDeliveryStatus>>

\* the answer of request i has gone out
WhatsappDone(i) ==
    /\ i \in InFlight
    /\ reqs[i].pc = "responded"
    /\ reqs' = Remove(i)
    /\ UNCHANGED <<smsVars, systemLoad, log, arrivals, whatsappVars>>

NextWhatsapp ==
    \/ \E platform \in WhatsappPlatforms : SendTemplate(platform)
    \/ \E i \in 1..MaxInFlight, statusCode \in UpstreamStatuses,
          body \in UpstreamBodies, duration \in UpstreamDurations :
           UpstreamEnd(i, statusCode, body, duration)
    \/ \E i \in 1..MaxInFlight, err \in NetworkErrors : UpstreamError(i, err)
    \/ \E i \in 1..MaxInFlight : WhatsappDone(i)

SpecWhatsapp == Init /\ [][NextWhatsapp]_vars

(***************************************************************************)
(* Properties.                                                             *)
(***************************************************************************)
IsSms(r) == r.method = "POST" /\ r.path = "/sms/send"
IsAdmin(r) == r.method = "POST" /\ r.path = "/admin/simulate-load"
MissingField(r) == ~Truthy(r.to) \/ ~Truthy(r.text)

\* the request received in this step, when one is
Arrived == Len(reqs') = Len(reqs) + 1
Newest == reqs'[Len(reqs')]

\* C1, as stated: every /sms/send request that lacks to or text is answered
\* 400 without a timer, whatever the error draw.
C1_MissingAlways400 ==
    \A i \in InFlight :
        (IsSms(reqs[i]) /\ MissingField(reqs[i]))
            => (reqs[i].pc = "responded" /\ reqs[i].statusCode = 400
                /\ ~reqs[i].timerSet)

\* C1, amended: a /sms/send request that lacks to or text is answered before
\* any timer is set, in either chaos state: 500 when the request was selected
\* for a simulated error, 400 otherwise.
C1_Missing400UnlessSimulatedError ==
    \A i \in InFlight :
        (IsSms(reqs[i]) /\ MissingField(reqs[i]))
            => /\ reqs[i].pc = "responded"
               /\ ~reqs[i].timerSet
               /\ reqs[i].processingTime = 0
               /\ reqs[i].statusCode = IF reqs[i].simulatedError THEN 500 ELSE 400

\* a request without to, received after chaos was switched on, answered 400
C1_Witness ==
    /\ arrivals = 2
    /\ Len(reqs) = 2
    /\ IsAdmin(reqs[1]) /\ reqs[1].enabled = JsTrue
    /\ Truthy(systemUnderLoad)
    /\ IsSms(reqs[2]) /\ ~Truthy(reqs[2].to) /\ Truthy(reqs[2].text)
    /\ reqs[2].statusCode = 400 /\ reqs[2].pc = "responded"

\* C2, as stated: every /sms/send request with the sentinel key is answered
\* 429 with retryAfter 30, whatever its other attributes.
C2_SentinelAlways429 ==
    \A i \in InFlight :
        (IsSms(reqs[i]) /\ reqs[i].apiKey = RateLimitedKey)
            => (reqs[i].pc = "responded" /\ reqs[i].statusCode = 429
                /\ reqs[i].body.retryAfter = 30)

\* C2, amended: a /sms/send request with the sentinel key that carries both to
\* and text and was not selected for a simulated error is answered 429 with
\* retryAfter 30, in either chaos state and without a timer.
C2_Sentinel429WhenValidAndNoError ==
    \A i \in InFlight :
        (/\ IsSms(reqs[i]) /\ reqs[i].apiKey = RateLimitedKey
         /\ ~MissingField(reqs[i]) /\ ~reqs[i].simulatedError)
            => /\ reqs[i].pc = "responded"
               /\ reqs[i].statusCode = 429
               /\ reqs[i].body.retryAfter = 30
               /\ ~reqs[i].timerSet

\* a valid request with the sentinel key, received under load, answered 429
C2_Witness ==
    /\ arrivals = 2
    /\ Len(reqs) = 2
    /\ IsAdmin(reqs[1]) /\ reqs[1].enabled = JsTrue
    /\ Truthy(systemUnderLoad)
    /\ IsSms(reqs[2]) /\ reqs[2].apiKey = RateLimitedKey
    /\ reqs[2].statusCode = 429 /\ reqs[2].body.retryAfter = 30

\* C3: no series of the per-request metrics carries the route /metrics, and
\* no request of that path is logged as an API request.
C3_MetricsRouteNeverRecorded ==
    /\ \A l \in BagToSet(httpRequests) : l.route # "/metrics"
    /\ \A l \in BagToSet(httpDuration.count) : l.route # "/metrics"
    /\ \A b \in BagToSet(httpDuration.buckets) : b.labels.route # "/metrics"
    /\ \A l \in BagToSet(httpDuration.sum) : l.route # "/metrics"
    /\ \A l \in BagToSet(httpErrors) : l.route # "/metrics"
    /\ \A e \in BagToSet(log) : e.path # "/metrics"

\* the only request received was a GET /metrics, it has finished, and the
\* per-request metrics are as they were
C3_Witness ==
    /\ arrivals = 1
    /\ reqs = <<>>
    /\ systemLoad = 3 * (RandDenom - 1)
    /\ httpRequests = EmptyBag
    /\ httpDuration.count = EmptyBag
    /\ httpErrors = EmptyBag

\* the error series a request series with status >= 400 goes with
ErrorSeriesOf(l) ==
    [method |-> l.method, route |-> l.route, status_code |-> toString(l.status_code),
     error_type |-> IF l.status_code >= 500 THEN "server_error"
                    ELSE IF l.status_code >= 400 THEN "client_error" ELSE "none"]

\* the part of http_requests_total with status >= 400
FailedRequests ==
    [l \in {m \in BagToSet(httpRequests) : m.status_code >= 400} |-> httpRequests[l]]

\* C4: the histogram count of every label set equals its http_requests_total
\* value; http_errors_total holds, for every label set with status >= 400 and
\* for no other, the same value under the error_type of the status class; the
\* sums agree.
C4_RequestMetricsAgree ==
    /\ httpDuration.count = httpRequests
    /\ \A l \in BagToSet(httpRequests) :
           l.status_code >= 400
               => Value(httpErrors, ErrorSeriesOf(l)) = Value(httpRequests, l)
    /\ \A e \in BagToSet(httpErrors) :
           \E l \in BagToSet(httpRequests) : l.status_code >= 400 /\ e = ErrorSeriesOf(l)
    /\ BagCardinality(httpErrors) = BagCardinality(FailedRequests)

\* a client error, a server error and a success have each been recorded
C4_Witness ==
    /\ \E l \in BagToSet(httpErrors) : l.error_type = "client_error"
    /\ \E l \in BagToSet(httpErrors) : l.error_type = "server_error"
    /\ \E l \in BagToSet(httpRequests) : l.status_code = 200
    /\ BagCardinality(httpRequests) = 3

\* the two latency ranges, in units of 1/RandDenom ms
InNormalRange(t) == 50 * RandDenom <= t /\ t <= 250 * RandDenom
InLoadedRange(t) == 500 * RandDenom <= t /\ t <= 2500 * RandDenom

\* C5: the timer of a /sms/send request is set to a latency of [500,2500] ms
\* when the flag is on as the request arrives and of [50,250] ms when it is
\* off, whatever happened before.
C5_LatencyFollowsFlag ==
    [][(Arrived /\ Newest.pc = "delay")
           => IF systemUnderLoad = JsTrue THEN InLoadedRange(Newest.processingTime)
              ELSE InNormalRange(Newest.processingTime)]_vars

\* enabled=true, then enabled=false, then a request whose timer is set from
\* the normal range: the third request follows the second toggle in reqs, and
\* the flag being off shows that the toggle to true came first
C5_Witness ==
    /\ arrivals = 3
    /\ systemUnderLoad = JsFalse
    /\ BagIn(LoadChangedLog(JsTrue), log)
    /\ Len(reqs) = 2
    /\ IsAdmin(reqs[1]) /\ reqs[1].enabled = JsFalse
    /\ IsSms(reqs[2]) /\ reqs[2].pc = "delay"
    /\ InNormalRange(reqs[2].processingTime)

\* C6: the toggle sets the flag to the boolean it is given, and to false when
\* none is given, whatever the flag was, and answers with the new flag.
C6_ToggleSetsFlag ==
    [][(Arrived /\ IsAdmin(Newest))
           => /\ systemUnderLoad' = IF Newest.enabled = JsTrue THEN JsTrue ELSE JsFalse
              /\ Newest.body.loadSimulation = systemUnderLoad'
              /\ Newest.statusCode = 200]_vars

\* the same toggle applied twice: the flag is as after the first
C6_Witness ==
    /\ Len(reqs) = 2
    /\ arrivals = 2
    /\ IsAdmin(reqs[1]) /\ reqs[1].enabled = JsTrue
    /\ IsAdmin(reqs[2]) /\ reqs[2].enabled = JsTrue
    /\ reqs[1].body.loadSimulation = JsTrue
    /\ reqs[2].body.loadSimulation = JsTrue
    /\ systemUnderLoad = JsTrue

\* C7: a /sms/send request has a timer behind it exactly when it is suspended,
\* was answered 200 or threw after the delay; none answered 400, 429 or 500 has.
C7_OnlySuccessIsDelayed ==
    \A i \in InFlight :
        IsSms(reqs[i])
            => /\ reqs[i].pc = "responded"
                   => /\ reqs[i].statusCode \in {200, 400, 429, 500}
                      /\ reqs[i].timerSet <=> reqs[i].statusCode = 200
               /\ reqs[i].pc \in {"delay", "rejected"} => reqs[i].timerSet

\* one request answered 400 without a timer, one answered 200 after its timer
C7_Witness ==
    \E i, j \in InFlight :
        /\ IsSms(reqs[i]) /\ reqs[i].pc = "responded"
        /\ reqs[i].statusCode = 400 /\ ~reqs[i].timerSet
        /\ IsSms(reqs[j]) /\ reqs[j].pc = "responded"
        /\ reqs[j].statusCode = 200 /\ reqs[j].timerSet

\* C9: every counter series equals the number of log records of the requests
\* that completed with its labels: http_requests_total and http_errors_total
\* the 'API Request' records, sms_delivered_total the 'SMS Sent Successfully'
\* records.
C9_CountersMatchCompletions ==
    /\ \A l \in BagToSet(httpRequests) :
           Value(httpRequests, l) =
               CopiesIn(ApiRequestLog(l.method, l.route, l.status_code), log)
    /\ \A e \in BagToSet(log) :
           /\ e.message = "API Request"
                  => /\ Value(httpRequests, [method |-> e.method, route |-> e.path,
                                             status_code |-> e.statusCode])
                            = CopiesIn(e, log)
                     /\ Value(httpErrors,
                              ErrorSeriesOf([method |-> e.method, route |-> e.path,
                                             status_code |-> e.statusCode]))
                            = IF e.statusCode >= 400 THEN CopiesIn(e, log) ELSE 0
           /\ e.message = "SMS Sent Successfully"
                  => Value(smsDelivered, [destination_country |-> e.country,
                                          status |-> "delivered"]) = CopiesIn(e, log)
    /\ \A l \in BagToSet(smsDelivered) :
           Value(smsDelivered, l) = CopiesIn(SmsSentLog(l.destination_country), log)

\* two requests in flight at once: the later one has passed its delay and
\* been counted while the earlier one is still suspended
C9_Witness ==
    /\ Len(reqs) = 2
    /\ IsSms(reqs[1]) /\ reqs[1].pc = "delay"
    /\ IsSms(reqs[2]) /\ reqs[2].pc = "responded" /\ reqs[2].timerSet
    /\ BagCardinality(smsDelivered) = 2
    /\ \E l \in BagToSet(httpRequests) : Value(httpRequests, l) = 1

\* C10, as stated: when the timer of an aborted request expires, the handler
\* leaves sms_delivered_total, currentQueueDepth and sms_queue_depth alone.
C10_AbortedRecordsNothing ==
    [][\A i \in InFlight :
           (reqs[i].aborted /\ reqs[i].pc = "delay"
            /\ Len(reqs') = Len(reqs) /\ reqs'[i].pc # "delay")
               => /\ smsDelivered' = smsDelivered
                  /\ currentQueueDepth' = currentQueueDepth
                  /\ smsQueue' = smsQueue]_vars

\* C8: the queue depth and the value set on the sms_queue_depth gauge are
\* never negative.
C8_QueueDepthNonNegative == currentQueueDepth >= 0 /\ smsQueue >= 0

\* a delivery that found the queue empty and drew a negative fluctuation: the
\* depth is still 0 after it
C8_Witness ==
    /\ DrainedDepth(Drained) = 0
    /\ BagCardinality(smsDelivered) = Drained + 1
    /\ currentQueueDepth = 0
    /\ smsQueue = 0

\* request i passes its delay in this step: its timer expires and the rest of
\* the handler runs
DeliveryStep(i) ==
    /\ i \in InFlight
    /\ IsSms(reqs[i])
    /\ reqs[i].pc = "delay"
    /\ Len(reqs') = Len(reqs)
    /\ reqs'[i].pc # "delay"

\* C11: systemUnderLoad changes only in the step that receives a POST
\* /admin/simulate-load; currentQueueDepth and sms_delivered_total change only
\* in the step in which a /sms/send request passes its delay; the steps that
\* receive any other request (GET /health, GET /metrics, a /sms/send request
\* answered 400, 429 or 500) and the steps that finish a /sms/send request
\* answered 400, 429 or 500 leave all three alone; GET /health answers with
\* the queue depth as it is.
C11_ChaosStateFrame ==
    [][/\ systemUnderLoad' # systemUnderLoad => (Arrived /\ IsAdmin(Newest))
       /\ currentQueueDepth' # currentQueueDepth => \E i \in InFlight : DeliveryStep(i)
       /\ smsDelivered' # smsDelivered => \E i \in InFlight : DeliveryStep(i)
       /\ (Arrived /\ ~IsAdmin(Newest))
              => UNCHANGED <<systemUnderLoad, currentQueueDepth, smsDelivered>>
       /\ (Arrived /\ Newest.path = "/health" /\ Newest.method = "GET")
              => /\ Newest.body.queueDepth = currentQueueDepth
                 /\ Newest.body.status = "healthy"
                 /\ currentQueueDepth' = currentQueueDepth
       /\ \A i \in InFlight :
              (/\ IsSms(reqs[i]) /\ reqs[i].pc = "responded"
               /\ reqs[i].statusCode \in {400, 429, 500}
               /\ Len(reqs') < Len(reqs))
                  => UNCHANGED <<systemUnderLoad, currentQueueDepth, smsDelivered>>]_vars

\* after a delivery has moved the queue depth, a /sms/send request was answered
\* 500 and a GET /health reports the depth as the delivery left it
C11_Witness ==
    /\ Len(reqs) = 2
    /\ BagCardinality(smsDelivered) = 1
    /\ currentQueueDepth # InitialQueueDepth * RandDenom
    /\ IsSms(reqs[1]) /\ reqs[1].pc = "responded" /\ reqs[1].statusCode = 500
    /\ reqs[2].path = "/health" /\ reqs[2].body.queueDepth = currentQueueDepth

\* the counter series of a platform and a delivery status
PlatformSeries(platform, status) ==
    {l \in BagToSet(smsDelivered) : l.platform = platform /\ l.status = status}

\* C12: under the platform-based policy, the step in which a request passes
\* its delay counts the request as undelivered and adds exactly 1 to the queue
\* depth when its platform is the disfavored one, and counts it as delivered
\* and leaves the queue depth alone for any other platform (or none); either
\* way the answer is 200 'accepted'.
C12_PlatformDecidesOutcome ==
    [][\A i \in InFlight :
           DeliveryStep(i)
               => /\ reqs'[i].pc = "responded"
                  /\ reqs'[i].statusCode = 200
                  /\ reqs'[i].body.status = "accepted"
                  /\ BagCardinality(smsDelivered') = BagCardinality(smsDelivered) + 1
                  /\ IF reqs[i].platform = Str(<<"ios">>)
                     THEN /\ currentQueueDepth' = currentQueueDepth + RandDenom
                          /\ \E l \in BagToSet(smsDelivered') :
                                 /\ l.platform = reqs[i].platform
                                 /\ l.status = "undelivered"
                                 /\ smsDelivered'[l] = CopiesIn(l, smsDelivered) + 1
                     ELSE /\ currentQueueDepth' = currentQueueDepth
                          /\ \E l \in BagToSet(smsDelivered') :
                                 /\ l.platform = reqs[i].platform
                                 /\ l.status = "delivered"
                                 /\ smsDelivered'[l] = CopiesIn(l, smsDelivered) + 1]_vars

\* an ios request and an android request have both passed their delay: one
\* undelivered, one delivered, the queue depth 1 above the initial depth
C12_Witness ==
    /\ Len(reqs) = 2
    /\ reqs[1].platform = Str(<<"ios">>) /\ reqs[1].pc = "responded"
    /\ reqs[2].platform = Str(<<"android">>) /\ reqs[2].pc = "responded"
    /\ PlatformSeries(Str(<<"ios">>), "undelivered") # {}
    /\ PlatformSeries(Str(<<"android">>), "delivered") # {}
    /\ PlatformSeries(Str(<<"ios">>), "delivered") = {}
    /\ currentQueueDepth = (InitialQueueDepth + 1) * RandDenom

\* the cumulative count of the bucket of bound le in the series labels of h
BucketCount(h, labels, le) == CopiesIn([labels |-> labels, le |-> le], h.buckets)

\* the bucket counts of h do not decrease from one bound of upperBounds to the
\* next, in every series
NonDecreasing(h, upperBounds) ==
    \A labels \in BagToSet(h.count) :
        \A j \in 1..(Len(upperBounds) - 1) :
            BucketCount(h, labels, upperBounds[j])
                <= BucketCount(h, labels, upperBounds[j + 1])

\* the bucket of bound le of h holds every observation, in every series
HoldsAll(h, le) ==
    \A labels \in BagToSet(h.count) :
        BucketCount(h, labels, le) = CopiesIn(labels, h.count)

\* the observations of h that the bucket of bound le does not hold are above
\* le: the sum of a series is at least le + 1 for each of them
OverflowAbove(h, le) ==
    \A labels \in BagToSet(h.count) :
        CopiesIn(labels, h.sum)
            >= (le + 1) * (BucketCount(h, labels, Inf) - BucketCount(h, labels, le))

\* C13, as stated: in both histograms the bucket counts are non-decreasing
\* along the bounds and the bucket of the top bound, 5000, holds every
\* observation.
C13_TopBoundHoldsAll ==
    /\ NonDecreasing(httpDuration, Buckets)
    /\ NonDecreasing(whatsappDuration, WhatsappBuckets)
    /\ HoldsAll(httpDuration, Buckets[Len(Buckets)])
    /\ HoldsAll(whatsappDuration, WhatsappBuckets[Len(WhatsappBuckets)])

\* C13, amended: in both histograms the bucket counts are non-decreasing along
\* the bounds 50 (100) .. 5000 and on to +Inf, and the bucket +Inf holds every
\* observation; the bucket 5000 falls short of it by the observations above
\* 5000 ms.
C13_InfBucketHoldsAll ==
    /\ NonDecreasing(httpDuration, Buckets \o <<Inf>>)
    /\ NonDecreasing(whatsappDuration, WhatsappBuckets \o <<Inf>>)
    /\ HoldsAll(httpDuration, Inf)
    /\ HoldsAll(whatsappDuration, Inf)
    /\ OverflowAbove(httpDuration, Buckets[Len(Buckets)])
    /\ OverflowAbove(whatsappDuration, WhatsappBuckets[Len(WhatsappBuckets)])

\* one series of whatsapp_request_duration_ms after three observations: one
\* in the first bucket, one in a middle bucket only, one above the top bound
C13_Witness ==
    \E labels \in BagToSet(whatsappDuration.count) :
        /\ CopiesIn(labels, whatsappDuration.count) = 3
        /\ BucketCount(whatsappDuration, labels, 100) = 1
        /\ BucketCount(whatsappDuration, labels, 1000) = 2
        /\ BucketCount(whatsappDuration, labels, 5000) = 2
        /\ BucketCount(whatsappDuration, labels, Inf) = 3

\* the country of a destination by its prefix: the table as documented
CountryByPrefix(to) ==
    CASE startsWith(to.val, <<"+", "1">>) -> "US"
      [] startsWith(to.val, <<"+", "4", "4">>) -> "UK"
      [] startsWith(to.val, <<"+", "4", "9">>) -> "DE"
      [] OTHER -> "OTHER"

\* a /sms/send request that no check turns away: no simulated error, to and
\* text present, no sentinel key
Accepted(r) == ~r.simulatedError /\ ~MissingField(r) /\ r.apiKey # RateLimitedKey

\* C14, as stated: every answer of /sms/send is 200, 400, 429 or 500; exactly
\* the requests with no simulated error, with to and text and without the
\* sentinel key go on to the delay, the others are answered at once with
\* another status than 200; a request that passes its delay is answered 200
\* 'accepted' with its to, and in that step, and in no other,
\* sms_delivered_total grows by 1 in the series of the country of the prefix
\* with status 'delivered'.
C14_AcceptedIs200AndCounted ==
    [][/\ \A i \in InFlight :
              (IsSms(reqs[i]) /\ reqs[i].pc = "responded")
                  => reqs[i].statusCode \in {200, 400, 429, 500}
       /\ (Arrived /\ IsSms(Newest))
              => /\ Accepted(Newest) <=> Newest.pc = "delay"
                 /\ ~Accepted(Newest)
                        => Newest.pc = "responded" /\ Newest.statusCode # 200
       /\ \A i \in InFlight :
              DeliveryStep(i)
                  => /\ reqs'[i].pc = "responded"
                     /\ reqs'[i].statusCode = 200
                     /\ reqs'[i].body.status = "accepted"
                     /\ reqs'[i].body.to = reqs[i].to
                     /\ smsDelivered' = smsDelivered (+) SetToBag({
                            [destination_country |-> CountryByPrefix(reqs[i].to),
                             status |-> "delivered"]})
       /\ smsDelivered' # smsDelivered => \E i \in InFlight : DeliveryStep(i)]_vars

\* the outbound call of request i ends in this step, with the event given
CallEnds(i, event) ==
    /\ i \in InFlight
    /\ reqs[i].pc = "calling"
    /\ Len(reqs') = Len(reqs)
    /\ reqs'[i].event = event

\* C15: in the step in which the outbound call of a request fails, the request
\* is answered 500 with the message of the error, whatsapp_errors_total
\* {error_type = network_error, status_code = 0} grows by exactly 1 and no
\* other series of it changes, and whatsapp_request_duration_ms,
\* interactive_message_sent_total and platform_delivery_status stay as they
\* are.
C15_NetworkErrorIs500 ==
    [][\A i \in InFlight :
           CallEnds(i, "error")
               => /\ reqs'[i].pc = "responded"
                  /\ reqs'[i].statusCode = 500
                  /\ reqs'[i].message = reqs'[i].upstreamError
                  /\ reqs'[i].message \in NetworkErrors
                  /\ whatsappErrors' = whatsappErrors (+) SetToBag({
                         [error_type |-> "network_error", status_code |-> 0]})
                  /\ UNCHANGED <<whatsappDuration, interactive_message_sent_total,
                                 platformDeliveryStatus>>]_vars

\* of two calls under way at once, the first was answered by the upstream
\* with 200 and the second failed: one network error counted, and as many
\* observations, sent messages and gauge series as the first call left
C15_Witness ==
    /\ Len(reqs) = 2
    /\ reqs[1].event = "end" /\ reqs[1].upstreamStatus = 200
    /\ reqs[1].upstreamBody = DeliveredBody
    /\ reqs[2].event = "error" /\ reqs[2].statusCode = 500
    /\ reqs[2].message = "ETIMEDOUT"
    /\ whatsappErrors = SetToBag({[error_type |-> "network_error", status_code |-> 0]})
    /\ BagCardinality(whatsappDuration.count) = 1
    /\ BagCardinality(interactive_message_sent_total) = 1
    /\ Cardinality(DOMAIN platformDeliveryStatus) = 1

\* C17: in the step in which the upstream answers a request with status s,
\* the request is answered with s, whatsapp_request_duration_ms gets one
\* observation, with status_code = s, interactive_message_sent_total grows (by
\* 1, for the platform of the request) exactly when 200 <= s < 300, and
\* whatsapp_errors_total grows (by 1, with status_code = s) exactly when
\* s >= 400, as server_error when s >= 500 and as client_error otherwise.
C17_UpstreamStatusIsRelayed ==
    [][\A i \in InFlight :
           CallEnds(i, "end")
               => LET s == reqs'[i].upstreamStatus
                  IN  /\ reqs'[i].pc = "responded"
                      /\ reqs'[i].statusCode = s
                      /\ whatsappDuration'.count =
                             whatsappDuration.count (+) SetToBag({[status_code |-> s]})
                      /\ interactive_message_sent_total' =
                             IF 200 <= s /\ s < 300
                             THEN interactive_message_sent_total (+) SetToBag({
                                      [language |-> "interactive",
                                       platform |-> reqs[i].platform]})
                             ELSE interactive_message_sent_total
                      /\ whatsappErrors' =
                             IF s >= 500
                             THEN whatsappErrors (+) SetToBag({
                                      [error_type |-> "server_error", status_code |-> s]})
                             ELSE IF s >= 400
                             THEN whatsappErrors (+) SetToBag({
                                      [error_type |-> "client_error", status_code |-> s]})
                             ELSE whatsappErrors]_vars

\* the upstream answered one request with 304 and one with 503: both relayed
\* and observed, one server error and no message counted
C17_Witness ==
    /\ Len(reqs) = 2
    /\ reqs[1].event = "end" /\ reqs[1].statusCode = 304
    /\ reqs[2].event = "end" /\ reqs[2].statusCode = 503
    /\ BagCardinality(whatsappDuration.count) = 2
    /\ interactive_message_sent_total = EmptyBag
    /\ whatsappErrors = SetToBag({[error_type |-> "server_error", status_code |-> 503]})

\* the series expected for an upstream body: whether the gauge is set,
\* under which status_name and to which value, in halves
GaugeSet(name, value) == [set |-> TRUE, name |-> name, value |-> value]
GaugeKept == [set |-> FALSE, name |-> "", value |-> 0]

\* by the status the body carries; a body that is no JSON leaves the gauge
ByStatus(body) ==
    CASE body = PendingBody -> GaugeSet("PENDING_ENROUTE", 1)
      [] body = DeliveredBody -> GaugeSet("DELIVERED_TO_HANDSET", 2)
      [] body = RejectedBody -> GaugeSet("REJECTED_NETWORK", 0)
      [] body = UnnamedBody -> GaugeSet("unknown", 2)
      [] body = EmptyObjectBody -> GaugeSet("unknown", 0)
      [] body = NullBody -> GaugeSet("unknown", 0)
      [] body = BadGatewayBody -> GaugeKept

\* the gauge after the 'end' handler of request i, for what a body stands for
GaugeFollows(i, expected) ==
    LET labels == [platform |-> reqs[i].platform, status_name |-> expected.name]
    IN  IF expected.set
        THEN platformDeliveryStatus' =
                 [l \in DOMAIN platformDeliveryStatus \cup {labels} |->
                     IF l = labels THEN expected.value ELSE platformDeliveryStatus[l]]
        ELSE platformDeliveryStatus' = platformDeliveryStatus

\* the upstream status and body are relayed to the caller
Relayed(r) == r.statusCode = r.upstreamStatus /\ r.body = r.upstreamBody

\* C18, as stated: the 'end' handler sets the gauge of (platform, status_name)
\* to 1 for groupId 3, to 0.5 for groupId 1 and to 0 for any other or missing
\* groupId, with status_name 'unknown' for a status without a name, for every
\* body that is parseable JSON (null included); for a body that is not, it
\* leaves the gauge alone; the upstream status and body are relayed.
C18_GaugeSetForAnyJson ==
    [][\A i \in InFlight :
           CallEnds(i, "end")
               => /\ GaugeFollows(i, ByStatus(reqs'[i].upstreamBody))
                  /\ Relayed(reqs'[i])]_vars

\* C18, amended: as stated, except that the body null, although parseable
\* JSON, leaves the gauge alone like a body that is not JSON.
C18_GaugeSetUnlessNullOrNoJson ==
    [][\A i \in InFlight :
           CallEnds(i, "end")
               => /\ GaugeFollows(i, IF reqs'[i].upstreamBody = NullBody THEN GaugeKept
                                     ELSE ByStatus(reqs'[i].upstreamBody))
                  /\ Relayed(reqs'[i])]_vars

\* a pending status was answered to the first request and the body null to
\* the second: the gauge holds 0.5 for the first and nothing else, and both
\* bodies were relayed
C18_Witness ==
    /\ Len(reqs) = 2
    /\ reqs[1].event = "end" /\ reqs[1].body = PendingBody
    /\ reqs[2].event = "end" /\ reqs[2].body = NullBody /\ reqs[2].statusCode = 200
    /\ platformDeliveryStatus =
           ([platform |-> reqs[1].platform, status_name |-> "PENDING_ENROUTE"] :> 1)

\* C19: a /sms/send request selected for a simulated error is answered 500,
\* also when it lacks to or text or carries the sentinel key; one that is not
\* selected, lacks to or text and carries the sentinel key is answered 400.
C19_ErrorThenValidationThenKey ==
    \A i \in InFlight :
        IsSms(reqs[i])
            => /\ reqs[i].simulatedError
                      => /\ reqs[i].pc = "responded"
                         /\ reqs[i].statusCode = 500
                         /\ reqs[i].body.error = "Internal server error"
               /\ (~reqs[i].simulatedError /\ MissingField(reqs[i])
                   /\ reqs[i].apiKey = RateLimitedKey)
                      => /\ reqs[i].pc = "responded"
                         /\ reqs[i].statusCode = 400
                         /\ reqs[i].body.error = "Bad request"
                         /\ reqs[i].body.retryAfter = NoBody.retryAfter

\* two requests without to and with the sentinel key: the one selected for a
\* simulated error answered 500, the other 400
C19_Witness ==
    /\ Len(reqs) = 2
    /\ \A i \in {1, 2} :
           /\ IsSms(reqs[i]) /\ ~Truthy(reqs[i].to)
           /\ reqs[i].apiKey = RateLimitedKey
    /\ reqs[1].simulatedError /\ reqs[1].statusCode = 500
    /\ ~reqs[2].simulatedError /\ reqs[2].statusCode = 400

\* g is depth / RandDenom rounded to the nearest integer
Nearest(g, depth) ==
    /\ 2 * g * RandDenom - RandDenom <= 2 * depth
    /\ 2 * depth < 2 * g * RandDenom + RandDenom

\* C20: the step in which a /sms/send request passes its delay leaves the
\* sms_queue_depth gauge at currentQueueDepth rounded to the nearest integer,
\* and every step from a state in which the gauge is that keeps it so.
C20_GaugeFollowsDepth ==
    [][((\E i \in InFlight : DeliveryStep(i)) \/ Nearest(smsQueue, currentQueueDepth))
           => Nearest(smsQueue', currentQueueDepth')]_vars

\* two requests were in flight at once and both have passed their delay, the
\* later one first: the depth is not an integer and the gauge is the integer
\* nearest to it
C20_Witness ==
    /\ Len(reqs) = 2
    /\ reqs[1].pc = "responded" /\ reqs[1].timerSet
    /\ reqs[2].pc = "responded" /\ reqs[2].timerSet
    /\ reqs[1].processingTime > reqs[2].processingTime
    /\ currentQueueDepth % RandDenom # 0
    /\ currentQueueDepth < InitialQueueDepth * RandDenom
    /\ smsQueue = InitialQueueDepth
    /\ Nearest(smsQueue, currentQueueDepth)

\* C16, as stated: a /sms/send request that passes its delay is answered 200
\* in that step; an answer, once given, is not changed or given again; and,
\* timers being fired, every request that is suspended in its delay resumes:
\* from some point on none is suspended.
C16_DelayedIsAnsweredOnce ==
    /\ [][\A i \in InFlight :
              DeliveryStep(i) => reqs'[i].pc = "responded" /\ reqs'[i].statusCode = 200]_vars
    /\ [][\A i \in InFlight :
              (reqs[i].pc = "responded" /\ Len(reqs') = Len(reqs)) => reqs'[i] = reqs[i]]_vars
    /\ <>[](\A i \in InFlight : reqs[i].pc # "delay")

\* request i is a /sms/send request suspended in its delay
Suspended(i) == i \in InFlight /\ IsSms(reqs[i]) /\ reqs[i].pc = "delay"

\* C21: the latency and the error decision of a /sms/send request are taken
\* from the flag as it is in the step that receives the request; the step that
\* receives a toggle changes no request in flight; while a request is
\* suspended no step changes its latency or its error decision; and the step
\* in which it passes its delay gives the outcome its own fields decide (200
\* 'accepted' for a string `to`), whatever the flag is by then.
C21_FixedAtArrival ==
    [][/\ (Arrived /\ IsSms(Newest))
              => /\ Newest.pc = "delay"
                     => IF Truthy(systemUnderLoad)
                        THEN InLoadedRange(Newest.processingTime)
                        ELSE InNormalRange(Newest.processingTime)
                 /\ Newest.simulatedError <=> Newest.statusCode = 500
                 /\ Newest.simulatedError => Newest.pc = "responded"
       /\ (Arrived /\ IsAdmin(Newest)) => \A i \in InFlight : reqs'[i] = reqs[i]
       /\ \A i \in InFlight :
              (Suspended(i) /\ Len(reqs') >= Len(reqs))
                  => /\ reqs'[i].processingTime = reqs[i].processingTime
                     /\ reqs'[i].simulatedError = reqs[i].simulatedError
                     /\ ~reqs'[i].simulatedError
                     /\ reqs'[i].statusCode = 200
       /\ \A i \in InFlight :
              DeliveryStep(i)
                  => IF reqs[i].to.type = "string"
                     THEN /\ reqs'[i].pc = "responded"
                          /\ reqs'[i].body.status = "accepted"
                          /\ smsDelivered' # smsDelivered
                     ELSE reqs'[i].pc = "rejected"]_vars

\* a request whose timer was set from the normal range is still suspended and
\* the flag is on: the toggle to true was received after it and is still in
\* flight behind it
C21_Witness ==
    /\ Len(reqs) = 2
    /\ Suspended(1)
    /\ InNormalRange(reqs[1].processingTime)
    /\ IsAdmin(reqs[2]) /\ reqs[2].enabled = JsTrue
    /\ systemUnderLoad = JsTrue

====
